---- MODULE Spec2Model ----
(***************************************************************************)
(* Church Document Hub (src/index.tsx): the App component's state, its     *)
(* event handlers and the filteredDocuments computation (facet filter,     *)
(* relevance scoring, recency fallback) with the locale rendering helpers. *)
(*                                                                         *)
(* JavaScript strings are modelled as sequences of UTF-16 code units, so   *)
(* that toLowerCase, trim, includes and parseInt are computed on the       *)
(* characters.  Timestamps (milliseconds since the Unix epoch) exceed the  *)
(* integer range of the model checker and are kept as a pair               *)
(* [hi, lo] standing for hi * TimeUnit + lo with 0 <= lo < TimeUnit.       *)
(***************************************************************************)
EXTENDS Integers, Sequences, FiniteSets, TLC

VARIABLES
    documents,    \* useState<Document[]>           (index.tsx:126)
    filters,      \* useState<Filters>              (index.tsx:127)
    isUploading,  \* useState(false)                (index.tsx:135)
    language,     \* useState<Language>('en')       (index.tsx:136)
    form,         \* UploadForm's state             (index.tsx:320-327)
    now,          \* the latest reading of the clock (Date.now(), new Date())
    filtered,     \* the local 'filtered' of filteredDocuments (index.tsx:171)
    result,       \* the value of the filteredDocuments memo (index.tsx:168)
    probe,        \* argument and value of one locale rendering call
    pc            \* position: mounting (mounted, the seeding update not
                  \* yet rendered) / mounted / crashed, or input / output of a call

vars == <<documents, filters, isUploading, language, form, now, filtered,
          result, probe, pc>>

-----------------------------------------------------------------------------
(* Bounds of the model *)

\* longest collection handed to filteredDocuments in SpecQuery
MaxDocs == 3
\* number of uploads in Spec
MaxUploads == 2
\* number of milliseconds the clock advances in Spec
MaxTicks == 1

-----------------------------------------------------------------------------
(* JavaScript strings *)

\* the printable ASCII characters in code order: codes 32..95 and 97..126
AsciiLow ==
    " !\"#$%&'()*+,-./0123456789:;<=>?@ABCDEFGHIJKLMNOPQRSTUVWXYZ[\\]^_"

AsciiHigh == "abcdefghijklmnopqrstuvwxyz{|}~"

\* the code unit of a one-character ASCII string
CodeUnit(c) ==
    IF \E k \in 1..Len(AsciiLow) : SubSeq(AsciiLow, k, k) = c
    THEN 31 + (CHOOSE k \in 1..Len(AsciiLow) : SubSeq(AsciiLow, k, k) = c)
    ELSE 96 + (CHOOSE k \in 1..Len(AsciiHigh) : SubSeq(AsciiHigh, k, k) = c)

\* the code units of an ASCII string literal
Str(s) == [i \in 1..Len(s) |-> CodeUnit(SubSeq(s, i, i))]

\* A string is read as code points: a high surrogate followed by a low
\* surrogate is one code point, any other code unit is a code point by itself.
IsHighSurrogate(c) == c >= 55296 /\ c <= 56319
IsLowSurrogate(c) == c >= 56320 /\ c <= 57343

RECURSIVE CodePoints(_)
CodePoints(s) ==
    IF s = <<>> THEN <<>>
    ELSE IF Len(s) >= 2 /\ IsHighSurrogate(s[1]) /\ IsLowSurrogate(s[2])
         THEN <<65536 + (s[1] - 55296) * 1024 + (s[2] - 56320)>>
                 \o CodePoints(SubSeq(s, 3, Len(s)))
         ELSE <<s[1]>> \o CodePoints(Tail(s))

\* the code units of a code point
CodeUnits(cp) ==
    IF cp < 65536 THEN <<cp>>
    ELSE <<55296 + ((cp - 65536) \div 1024), 56320 + ((cp - 65536) % 1024)>>

\* The case tables of String.prototype.toLowerCase (Unicode default case
\* conversion, with the data of Unicode 17.0).  LowerRanges: <<first, last, step, delta>>, the code points
\* first, first + step, ..., last are lowered by adding delta.
LowerRanges ==
    << <<65, 90, 1, 32>>, <<192, 214, 1, 32>>, <<216, 222, 1, 32>>,
       <<256, 302, 2, 1>>, <<306, 310, 2, 1>>, <<313, 327, 2, 1>>,
       <<330, 374, 2, 1>>, <<376, 376, 1, -121>>, <<377, 381, 2, 1>>,
       <<385, 385, 1, 210>>, <<386, 388, 2, 1>>, <<390, 390, 1, 206>>,
       <<391, 391, 1, 1>>, <<393, 394, 1, 205>>, <<395, 395, 1, 1>>,
       <<398, 398, 1, 79>>, <<399, 399, 1, 202>>, <<400, 400, 1, 203>>,
       <<401, 401, 1, 1>>, <<403, 403, 1, 205>>, <<404, 404, 1, 207>>,
       <<406, 406, 1, 211>>, <<407, 407, 1, 209>>, <<408, 408, 1, 1>>,
       <<412, 412, 1, 211>>, <<413, 413, 1, 213>>, <<415, 415, 1, 214>>,
       <<416, 420, 2, 1>>, <<422, 422, 1, 218>>, <<423, 423, 1, 1>>,
       <<425, 425, 1, 218>>, <<428, 428, 1, 1>>, <<430, 430, 1, 218>>,
       <<431, 431, 1, 1>>, <<433, 434, 1, 217>>, <<435, 437, 2, 1>>,
       <<439, 439, 1, 219>>, <<440, 440, 1, 1>>, <<444, 444, 1, 1>>,
       <<452, 452, 1, 2>>, <<453, 453, 1, 1>>, <<455, 455, 1, 2>>,
       <<456, 456, 1, 1>>, <<458, 458, 1, 2>>, <<459, 475, 2, 1>>,
       <<478, 494, 2, 1>>, <<497, 497, 1, 2>>, <<498, 500, 2, 1>>,
       <<502, 502, 1, -97>>, <<503, 503, 1, -56>>, <<504, 542, 2, 1>>,
       <<544, 544, 1, -130>>, <<546, 562, 2, 1>>, <<570, 570, 1, 10795>>,
       <<571, 571, 1, 1>>, <<573, 573, 1, -163>>, <<574, 574, 1, 10792>>,
       <<577, 577, 1, 1>>, <<579, 579, 1, -195>>, <<580, 580, 1, 69>>,
       <<581, 581, 1, 71>>, <<582, 590, 2, 1>>, <<880, 882, 2, 1>>,
       <<886, 886, 1, 1>>, <<895, 895, 1, 116>>, <<902, 902, 1, 38>>,
       <<904, 906, 1, 37>>, <<908, 908, 1, 64>>, <<910, 911, 1, 63>>,
       <<913, 929, 1, 32>>, <<931, 939, 1, 32>>, <<975, 975, 1, 8>>,
       <<984, 1006, 2, 1>>, <<1012, 1012, 1, -60>>, <<1015, 1015, 1, 1>>,
       <<1017, 1017, 1, -7>>, <<1018, 1018, 1, 1>>, <<1021, 1023, 1, -130>>,
       <<1024, 1039, 1, 80>>, <<1040, 1071, 1, 32>>, <<1120, 1152, 2, 1>>,
       <<1162, 1214, 2, 1>>, <<1216, 1216, 1, 15>>, <<1217, 1229, 2, 1>>,
       <<1232, 1326, 2, 1>>, <<1329, 1366, 1, 48>>, <<4256, 4293, 1, 7264>>,
       <<4295, 4295, 1, 7264>>, <<4301, 4301, 1, 7264>>, <<5024, 5103, 1, 38864>>,
       <<5104, 5109, 1, 8>>, <<7305, 7305, 1, 1>>, <<7312, 7354, 1, -3008>>,
       <<7357, 7359, 1, -3008>>, <<7680, 7828, 2, 1>>, <<7838, 7838, 1, -7615>>,
       <<7840, 7934, 2, 1>>, <<7944, 7951, 1, -8>>, <<7960, 7965, 1, -8>>,
       <<7976, 7983, 1, -8>>, <<7992, 7999, 1, -8>>, <<8008, 8013, 1, -8>>,
       <<8025, 8031, 2, -8>>, <<8040, 8047, 1, -8>>, <<8072, 8079, 1, -8>>,
       <<8088, 8095, 1, -8>>, <<8104, 8111, 1, -8>>, <<8120, 8121, 1, -8>>,
       <<8122, 8123, 1, -74>>, <<8124, 8124, 1, -9>>, <<8136, 8139, 1, -86>>,
       <<8140, 8140, 1, -9>>, <<8152, 8153, 1, -8>>, <<8154, 8155, 1, -100>>,
       <<8168, 8169, 1, -8>>, <<8170, 8171, 1, -112>>, <<8172, 8172, 1, -7>>,
       <<8184, 8185, 1, -128>>, <<8186, 8187, 1, -126>>, <<8188, 8188, 1, -9>>,
       <<8486, 8486, 1, -7517>>, <<8490, 8490, 1, -8383>>, <<8491, 8491, 1, -8262>>,
       <<8498, 8498, 1, 28>>, <<8544, 8559, 1, 16>>, <<8579, 8579, 1, 1>>,
       <<9398, 9423, 1, 26>>, <<11264, 11311, 1, 48>>, <<11360, 11360, 1, 1>>,
       <<11362, 11362, 1, -10743>>, <<11363, 11363, 1, -3814>>, <<11364, 11364, 1, -10727>>,
       <<11367, 11371, 2, 1>>, <<11373, 11373, 1, -10780>>, <<11374, 11374, 1, -10749>>,
       <<11375, 11375, 1, -10783>>, <<11376, 11376, 1, -10782>>, <<11378, 11378, 1, 1>>,
       <<11381, 11381, 1, 1>>, <<11390, 11391, 1, -10815>>, <<11392, 11490, 2, 1>>,
       <<11499, 11501, 2, 1>>, <<11506, 11506, 1, 1>>, <<42560, 42604, 2, 1>>,
       <<42624, 42650, 2, 1>>, <<42786, 42798, 2, 1>>, <<42802, 42862, 2, 1>>,
       <<42873, 42875, 2, 1>>, <<42877, 42877, 1, -35332>>, <<42878, 42886, 2, 1>>,
       <<42891, 42891, 1, 1>>, <<42893, 42893, 1, -42280>>, <<42896, 42898, 2, 1>>,
       <<42902, 42920, 2, 1>>, <<42922, 42922, 1, -42308>>, <<42923, 42923, 1, -42319>>,
       <<42924, 42924, 1, -42315>>, <<42925, 42925, 1, -42305>>, <<42926, 42926, 1, -42308>>,
       <<42928, 42928, 1, -42258>>, <<42929, 42929, 1, -42282>>, <<42930, 42930, 1, -42261>>,
       <<42931, 42931, 1, 928>>, <<42932, 42946, 2, 1>>, <<42948, 42948, 1, -48>>,
       <<42949, 42949, 1, -42307>>, <<42950, 42950, 1, -35384>>, <<42951, 42953, 2, 1>>,
       <<42955, 42955, 1, -42343>>, <<42956, 42970, 2, 1>>, <<42972, 42972, 1, -42561>>,
       <<42997, 42997, 1, 1>>, <<65313, 65338, 1, 32>>, <<66560, 66599, 1, 40>>,
       <<66736, 66771, 1, 40>>, <<66928, 66964, 2, 39>>, <<66929, 66937, 2, 39>>,
       <<66941, 66953, 2, 39>>, <<66957, 66961, 2, 39>>, <<66965, 66965, 1, 39>>,
       <<68736, 68786, 1, 64>>, <<68944, 68965, 1, 32>>, <<71840, 71871, 1, 32>>,
       <<93760, 93791, 1, 32>>, <<93856, 93880, 1, 27>>, <<125184, 125217, 1, 34>> >>

\* code points with the property Cased and without Case_Ignorable, as
\* <<first, last>>
CasedRanges ==
    << <<65, 90>>, <<97, 122>>, <<170, 170>>, <<181, 181>>,
       <<186, 186>>, <<192, 214>>, <<216, 246>>, <<248, 442>>,
       <<444, 447>>, <<452, 659>>, <<662, 687>>, <<880, 883>>,
       <<886, 887>>, <<891, 893>>, <<895, 895>>, <<902, 902>>,
       <<904, 906>>, <<908, 908>>, <<910, 929>>, <<931, 1013>>,
       <<1015, 1153>>, <<1162, 1327>>, <<1329, 1366>>, <<1376, 1416>>,
       <<4256, 4293>>, <<4295, 4295>>, <<4301, 4301>>, <<4304, 4346>>,
       <<4349, 4351>>, <<5024, 5109>>, <<5112, 5117>>, <<7296, 7306>>,
       <<7312, 7354>>, <<7357, 7359>>, <<7424, 7467>>, <<7531, 7543>>,
       <<7545, 7578>>, <<7680, 7957>>, <<7960, 7965>>, <<7968, 8005>>,
       <<8008, 8013>>, <<8016, 8023>>, <<8025, 8025>>, <<8027, 8027>>,
       <<8029, 8029>>, <<8031, 8061>>, <<8064, 8116>>, <<8118, 8124>>,
       <<8126, 8126>>, <<8130, 8132>>, <<8134, 8140>>, <<8144, 8147>>,
       <<8150, 8155>>, <<8160, 8172>>, <<8178, 8180>>, <<8182, 8188>>,
       <<8450, 8450>>, <<8455, 8455>>, <<8458, 8467>>, <<8469, 8469>>,
       <<8473, 8477>>, <<8484, 8484>>, <<8486, 8486>>, <<8488, 8488>>,
       <<8490, 8493>>, <<8495, 8500>>, <<8505, 8505>>, <<8508, 8511>>,
       <<8517, 8521>>, <<8526, 8526>>, <<8544, 8575>>, <<8579, 8580>>,
       <<9398, 9449>>, <<11264, 11387>>, <<11390, 11492>>, <<11499, 11502>>,
       <<11506, 11507>>, <<11520, 11557>>, <<11559, 11559>>, <<11565, 11565>>,
       <<42560, 42605>>, <<42624, 42651>>, <<42786, 42863>>, <<42865, 42887>>,
       <<42891, 42894>>, <<42896, 42972>>, <<42997, 42998>>, <<43002, 43002>>,
       <<43824, 43866>>, <<43872, 43880>>, <<43888, 43967>>, <<64256, 64262>>,
       <<64275, 64279>>, <<65313, 65338>>, <<65345, 65370>>, <<66560, 66639>>,
       <<66736, 66771>>, <<66776, 66811>>, <<66928, 66938>>, <<66940, 66954>>,
       <<66956, 66962>>, <<66964, 66965>>, <<66967, 66977>>, <<66979, 66993>>,
       <<66995, 67001>>, <<67003, 67004>>, <<68736, 68786>>, <<68800, 68850>>,
       <<68944, 68965>>, <<68976, 68997>>, <<71840, 71903>>, <<93760, 93823>>,
       <<93856, 93880>>, <<93883, 93907>>, <<119808, 119892>>, <<119894, 119964>>,
       <<119966, 119967>>, <<119970, 119970>>, <<119973, 119974>>, <<119977, 119980>>,
       <<119982, 119993>>, <<119995, 119995>>, <<119997, 120003>>, <<120005, 120069>>,
       <<120071, 120074>>, <<120077, 120084>>, <<120086, 120092>>, <<120094, 120121>>,
       <<120123, 120126>>, <<120128, 120132>>, <<120134, 120134>>, <<120138, 120144>>,
       <<120146, 120485>>, <<120488, 120512>>, <<120514, 120538>>, <<120540, 120570>>,
       <<120572, 120596>>, <<120598, 120628>>, <<120630, 120654>>, <<120656, 120686>>,
       <<120688, 120712>>, <<120714, 120744>>, <<120746, 120770>>, <<120772, 120779>>,
       <<122624, 122633>>, <<122635, 122654>>, <<122661, 122666>>, <<125184, 125251>>,
       <<127280, 127305>>, <<127312, 127337>>, <<127344, 127369>> >>

\* code points with the property Case_Ignorable, as <<first, last>>
CaseIgnorableRanges ==
    << <<39, 39>>, <<46, 46>>, <<58, 58>>, <<94, 94>>,
       <<96, 96>>, <<168, 168>>, <<173, 173>>, <<175, 175>>,
       <<180, 180>>, <<183, 184>>, <<688, 879>>, <<884, 885>>,
       <<890, 890>>, <<900, 901>>, <<903, 903>>, <<1155, 1161>>,
       <<1369, 1369>>, <<1375, 1375>>, <<1425, 1469>>, <<1471, 1471>>,
       <<1473, 1474>>, <<1476, 1477>>, <<1479, 1479>>, <<1524, 1524>>,
       <<1536, 1541>>, <<1552, 1562>>, <<1564, 1564>>, <<1600, 1600>>,
       <<1611, 1631>>, <<1648, 1648>>, <<1750, 1757>>, <<1759, 1768>>,
       <<1770, 1773>>, <<1807, 1807>>, <<1809, 1809>>, <<1840, 1866>>,
       <<1958, 1968>>, <<2027, 2037>>, <<2042, 2042>>, <<2045, 2045>>,
       <<2070, 2093>>, <<2137, 2139>>, <<2184, 2184>>, <<2192, 2193>>,
       <<2199, 2207>>, <<2249, 2306>>, <<2362, 2362>>, <<2364, 2364>>,
       <<2369, 2376>>, <<2381, 2381>>, <<2385, 2391>>, <<2402, 2403>>,
       <<2417, 2417>>, <<2433, 2433>>, <<2492, 2492>>, <<2497, 2500>>,
       <<2509, 2509>>, <<2530, 2531>>, <<2558, 2558>>, <<2561, 2562>>,
       <<2620, 2620>>, <<2625, 2626>>, <<2631, 2632>>, <<2635, 2637>>,
       <<2641, 2641>>, <<2672, 2673>>, <<2677, 2677>>, <<2689, 2690>>,
       <<2748, 2748>>, <<2753, 2757>>, <<2759, 2760>>, <<2765, 2765>>,
       <<2786, 2787>>, <<2810, 2815>>, <<2817, 2817>>, <<2876, 2876>>,
       <<2879, 2879>>, <<2881, 2884>>, <<2893, 2893>>, <<2901, 2902>>,
       <<2914, 2915>>, <<2946, 2946>>, <<3008, 3008>>, <<3021, 3021>>,
       <<3072, 3072>>, <<3076, 3076>>, <<3132, 3132>>, <<3134, 3136>>,
       <<3142, 3144>>, <<3146, 3149>>, <<3157, 3158>>, <<3170, 3171>>,
       <<3201, 3201>>, <<3260, 3260>>, <<3263, 3263>>, <<3270, 3270>>,
       <<3276, 3277>>, <<3298, 3299>>, <<3328, 3329>>, <<3387, 3388>>,
       <<3393, 3396>>, <<3405, 3405>>, <<3426, 3427>>, <<3457, 3457>>,
       <<3530, 3530>>, <<3538, 3540>>, <<3542, 3542>>, <<3633, 3633>>,
       <<3636, 3642>>, <<3654, 3662>>, <<3761, 3761>>, <<3764, 3772>>,
       <<3782, 3782>>, <<3784, 3790>>, <<3864, 3865>>, <<3893, 3893>>,
       <<3895, 3895>>, <<3897, 3897>>, <<3953, 3966>>, <<3968, 3972>>,
       <<3974, 3975>>, <<3981, 3991>>, <<3993, 4028>>, <<4038, 4038>>,
       <<4141, 4144>>, <<4146, 4151>>, <<4153, 4154>>, <<4157, 4158>>,
       <<4184, 4185>>, <<4190, 4192>>, <<4209, 4212>>, <<4226, 4226>>,
       <<4229, 4230>>, <<4237, 4237>>, <<4253, 4253>>, <<4348, 4348>>,
       <<4957, 4959>>, <<5906, 5908>>, <<5938, 5939>>, <<5970, 5971>>,
       <<6002, 6003>>, <<6068, 6069>>, <<6071, 6077>>, <<6086, 6086>>,
       <<6089, 6099>>, <<6103, 6103>>, <<6109, 6109>>, <<6155, 6159>>,
       <<6211, 6211>>, <<6277, 6278>>, <<6313, 6313>>, <<6432, 6434>>,
       <<6439, 6440>>, <<6450, 6450>>, <<6457, 6459>>, <<6679, 6680>>,
       <<6683, 6683>>, <<6742, 6742>>, <<6744, 6750>>, <<6752, 6752>>,
       <<6754, 6754>>, <<6757, 6764>>, <<6771, 6780>>, <<6783, 6783>>,
       <<6823, 6823>>, <<6832, 6877>>, <<6880, 6891>>, <<6912, 6915>>,
       <<6964, 6964>>, <<6966, 6970>>, <<6972, 6972>>, <<6978, 6978>>,
       <<7019, 7027>>, <<7040, 7041>>, <<7074, 7077>>, <<7080, 7081>>,
       <<7083, 7085>>, <<7142, 7142>>, <<7144, 7145>>, <<7149, 7149>>,
       <<7151, 7153>>, <<7212, 7219>>, <<7222, 7223>>, <<7288, 7293>>,
       <<7376, 7378>>, <<7380, 7392>>, <<7394, 7400>>, <<7405, 7405>>,
       <<7412, 7412>>, <<7416, 7417>>, <<7468, 7530>>, <<7544, 7544>>,
       <<7579, 7679>>, <<8125, 8125>>, <<8127, 8129>>, <<8141, 8143>>,
       <<8157, 8159>>, <<8173, 8175>>, <<8189, 8190>>, <<8203, 8207>>,
       <<8216, 8217>>, <<8228, 8228>>, <<8231, 8231>>, <<8234, 8238>>,
       <<8288, 8292>>, <<8294, 8303>>, <<8305, 8305>>, <<8319, 8319>>,
       <<8336, 8348>>, <<8400, 8432>>, <<11388, 11389>>, <<11503, 11505>>,
       <<11631, 11631>>, <<11647, 11647>>, <<11744, 11775>>, <<11823, 11823>>,
       <<12293, 12293>>, <<12330, 12333>>, <<12337, 12341>>, <<12347, 12347>>,
       <<12441, 12446>>, <<12540, 12542>>, <<40981, 40981>>, <<42232, 42237>>,
       <<42508, 42508>>, <<42607, 42610>>, <<42612, 42621>>, <<42623, 42623>>,
       <<42652, 42655>>, <<42736, 42737>>, <<42752, 42785>>, <<42864, 42864>>,
       <<42888, 42890>>, <<42993, 42996>>, <<43000, 43001>>, <<43010, 43010>>,
       <<43014, 43014>>, <<43019, 43019>>, <<43045, 43046>>, <<43052, 43052>>,
       <<43204, 43205>>, <<43232, 43249>>, <<43263, 43263>>, <<43302, 43309>>,
       <<43335, 43345>>, <<43392, 43394>>, <<43443, 43443>>, <<43446, 43449>>,
       <<43452, 43453>>, <<43471, 43471>>, <<43493, 43494>>, <<43561, 43566>>,
       <<43569, 43570>>, <<43573, 43574>>, <<43587, 43587>>, <<43596, 43596>>,
       <<43632, 43632>>, <<43644, 43644>>, <<43696, 43696>>, <<43698, 43700>>,
       <<43703, 43704>>, <<43710, 43711>>, <<43713, 43713>>, <<43741, 43741>>,
       <<43756, 43757>>, <<43763, 43764>>, <<43766, 43766>>, <<43867, 43871>>,
       <<43881, 43883>>, <<44005, 44005>>, <<44008, 44008>>, <<44013, 44013>>,
       <<64286, 64286>>, <<64434, 64450>>, <<65024, 65039>>, <<65043, 65043>>,
       <<65056, 65071>>, <<65106, 65106>>, <<65109, 65109>>, <<65279, 65279>>,
       <<65287, 65287>>, <<65294, 65294>>, <<65306, 65306>>, <<65342, 65342>>,
       <<65344, 65344>>, <<65392, 65392>>, <<65438, 65439>>, <<65507, 65507>>,
       <<65529, 65531>>, <<66045, 66045>>, <<66272, 66272>>, <<66422, 66426>>,
       <<67456, 67461>>, <<67463, 67504>>, <<67506, 67514>>, <<68097, 68099>>,
       <<68101, 68102>>, <<68108, 68111>>, <<68152, 68154>>, <<68159, 68159>>,
       <<68325, 68326>>, <<68900, 68903>>, <<68942, 68942>>, <<68969, 68973>>,
       <<68975, 68975>>, <<69291, 69292>>, <<69317, 69317>>, <<69370, 69375>>,
       <<69446, 69456>>, <<69506, 69509>>, <<69633, 69633>>, <<69688, 69702>>,
       <<69744, 69744>>, <<69747, 69748>>, <<69759, 69761>>, <<69811, 69814>>,
       <<69817, 69818>>, <<69821, 69821>>, <<69826, 69826>>, <<69837, 69837>>,
       <<69888, 69890>>, <<69927, 69931>>, <<69933, 69940>>, <<70003, 70003>>,
       <<70016, 70017>>, <<70070, 70078>>, <<70089, 70092>>, <<70095, 70095>>,
       <<70191, 70193>>, <<70196, 70196>>, <<70198, 70199>>, <<70206, 70206>>,
       <<70209, 70209>>, <<70367, 70367>>, <<70371, 70378>>, <<70400, 70401>>,
       <<70459, 70460>>, <<70464, 70464>>, <<70502, 70508>>, <<70512, 70516>>,
       <<70587, 70592>>, <<70606, 70606>>, <<70608, 70608>>, <<70610, 70610>>,
       <<70625, 70626>>, <<70712, 70719>>, <<70722, 70724>>, <<70726, 70726>>,
       <<70750, 70750>>, <<70835, 70840>>, <<70842, 70842>>, <<70847, 70848>>,
       <<70850, 70851>>, <<71090, 71093>>, <<71100, 71101>>, <<71103, 71104>>,
       <<71132, 71133>>, <<71219, 71226>>, <<71229, 71229>>, <<71231, 71232>>,
       <<71339, 71339>>, <<71341, 71341>>, <<71344, 71349>>, <<71351, 71351>>,
       <<71453, 71453>>, <<71455, 71455>>, <<71458, 71461>>, <<71463, 71467>>,
       <<71727, 71735>>, <<71737, 71738>>, <<71995, 71996>>, <<71998, 71998>>,
       <<72003, 72003>>, <<72148, 72151>>, <<72154, 72155>>, <<72160, 72160>>,
       <<72193, 72202>>, <<72243, 72248>>, <<72251, 72254>>, <<72263, 72263>>,
       <<72273, 72278>>, <<72281, 72283>>, <<72330, 72342>>, <<72344, 72345>>,
       <<72544, 72544>>, <<72546, 72548>>, <<72550, 72550>>, <<72752, 72758>>,
       <<72760, 72765>>, <<72767, 72767>>, <<72850, 72871>>, <<72874, 72880>>,
       <<72882, 72883>>, <<72885, 72886>>, <<73009, 73014>>, <<73018, 73018>>,
       <<73020, 73021>>, <<73023, 73029>>, <<73031, 73031>>, <<73104, 73105>>,
       <<73109, 73109>>, <<73111, 73111>>, <<73177, 73177>>, <<73459, 73460>>,
       <<73472, 73473>>, <<73526, 73530>>, <<73536, 73536>>, <<73538, 73538>>,
       <<73562, 73562>>, <<78896, 78912>>, <<78919, 78933>>, <<90398, 90409>>,
       <<90413, 90415>>, <<92912, 92916>>, <<92976, 92982>>, <<92992, 92995>>,
       <<93504, 93506>>, <<93547, 93548>>, <<94031, 94031>>, <<94095, 94111>>,
       <<94176, 94177>>, <<94179, 94180>>, <<94194, 94195>>, <<110576, 110579>>,
       <<110581, 110587>>, <<110589, 110590>>, <<113821, 113822>>, <<113824, 113827>>,
       <<118528, 118573>>, <<118576, 118598>>, <<119143, 119145>>, <<119155, 119170>>,
       <<119173, 119179>>, <<119210, 119213>>, <<119362, 119364>>, <<121344, 121398>>,
       <<121403, 121452>>, <<121461, 121461>>, <<121476, 121476>>, <<121499, 121503>>,
       <<121505, 121519>>, <<122880, 122886>>, <<122888, 122904>>, <<122907, 122913>>,
       <<122915, 122916>>, <<122918, 122922>>, <<122928, 122989>>, <<123023, 123023>>,
       <<123184, 123197>>, <<123566, 123566>>, <<123628, 123631>>, <<124139, 124143>>,
       <<124398, 124399>>, <<124643, 124643>>, <<124646, 124646>>, <<124654, 124655>>,
       <<124661, 124661>>, <<124671, 124671>>, <<125136, 125142>>, <<125252, 125259>>,
       <<127995, 127999>>, <<917505, 917505>>, <<917536, 917631>>, <<917760, 917999>> >>

InRanges(cp, ranges) ==
    \E k \in 1..Len(ranges) : ranges[k][1] <= cp /\ cp <= ranges[k][2]

\* the code point cp lowered by the row of the table that holds it
RangeLower(cp, ranges) ==
    LET hits == {k \in 1..Len(ranges) :
                    /\ ranges[k][1] <= cp
                    /\ cp <= ranges[k][2]
                    /\ (cp - ranges[k][1]) % ranges[k][3] = 0}
    IN IF hits = {} THEN cp
       ELSE cp + ranges[CHOOSE k \in hits : TRUE][4]

\* the simple lowercase mapping of a code point; no code point from 11507 to
\* 42559 (the CJK ideographs among them) has one
SimpleLower(cp) ==
    IF cp < 128 THEN (IF cp >= 65 /\ cp <= 90 THEN cp + 32 ELSE cp)
    ELSE IF cp > 11506 /\ cp < 42560 THEN cp
    ELSE RangeLower(cp, LowerRanges)

\* a cased letter, as the scan for the final sigma sees it
CasedLetter(cp) == InRanges(cp, CasedRanges)
CaseIgnorable(cp) == InRanges(cp, CaseIgnorableRanges)

\* the scan around position i, given for every position whether its code
\* point is cased and whether it is case-ignorable: a cased letter precedes,
\* case-ignorable code points skipped, and none follows
SigmaIsFinal(i, cased, ignorable) ==
    /\ \E j \in 1..(i - 1) :
          /\ cased[j]
          /\ \A k \in (j + 1)..(i - 1) : ignorable[k]
    /\ ~\E j \in (i + 1)..Len(cased) :
          /\ cased[j]
          /\ \A k \in (i + 1)..(j - 1) : ignorable[k]

\* the condition Final_Sigma at position i of the code points p
FinalSigma(p, i) ==
    SigmaIsFinal(i, [j \in 1..Len(p) |-> CasedLetter(p[j])],
                    [j \in 1..Len(p) |-> CaseIgnorable(p[j])])

\* the lowering of the code point at position i: capital I with dot above
\* (304) becomes i and a combining dot, capital sigma (931) becomes the final
\* or the medial small sigma, every other code point has its simple mapping
LowerAt(p, i) ==
    IF p[i] = 304 THEN <<105, 775>>
    ELSE IF p[i] = 931 THEN (IF FinalSigma(p, i) THEN <<962>> ELSE <<963>>)
    ELSE CodeUnits(SimpleLower(p[i]))

\* String.prototype.toLowerCase; a string of ASCII code units has only the
\* letters A to Z to lower
ToLowerCase(s) ==
    IF \A i \in 1..Len(s) : s[i] < 128
    THEN [i \in 1..Len(s) |-> IF s[i] >= 65 /\ s[i] <= 90 THEN s[i] + 32 ELSE s[i]]
    ELSE LET p == CodePoints(s)
             out[k \in 0..Len(p)] ==
                 IF k = 0 THEN <<>> ELSE out[k - 1] \o LowerAt(p, k)
         IN out[Len(p)]

\* String.fromCharCode(c).toLowerCase(): the code units a single code unit
\* is lowered to
LowerUnit(c) == ToLowerCase(<<c>>)

\* WhiteSpace and LineTerminator code units stripped by trim and parseInt
WhiteSpace ==
    {9, 10, 11, 12, 13, 32, 160, 5760, 8232, 8233, 8239, 8287, 12288, 65279}
        \cup (8192..8202)

RECURSIVE TrimStart(_)
TrimStart(s) ==
    IF s # <<>> /\ Head(s) \in WhiteSpace THEN TrimStart(Tail(s)) ELSE s

RECURSIVE TrimEnd(_)
TrimEnd(s) ==
    IF s # <<>> /\ s[Len(s)] \in WhiteSpace
    THEN TrimEnd(SubSeq(s, 1, Len(s) - 1)) ELSE s

\* String.prototype.trim
Trim(s) == TrimEnd(TrimStart(s))

\* String.prototype.includes
Includes(s, q) ==
    \E i \in 1..(Len(s) - Len(q) + 1) : SubSeq(s, i, i + Len(q) - 1) = q

\* the value of a digit in a radix, or -1
DigitVal(c, radix) ==
    LET v == IF c >= 48 /\ c <= 57 THEN c - 48
             ELSE IF c >= 97 /\ c <= 122 THEN c - 87
             ELSE IF c >= 65 /\ c <= 90 THEN c - 55
             ELSE -1
    IN IF v < radix THEN v ELSE -1

NaN == [nan |-> TRUE, n |-> 0]
Num(n) == [nan |-> FALSE, n |-> n]

\* parseInt(s) with no radix argument: leading white space is skipped, a sign
\* and a 0x prefix are accepted, and the longest prefix of digits is
\* converted; NaN when that prefix is empty
ParseInt(s) ==
    LET t     == TrimStart(s)
        neg   == t # <<>> /\ Head(t) = 45
        u     == IF t # <<>> /\ Head(t) \in {43, 45} THEN Tail(t) ELSE t
        hex   == Len(u) >= 2 /\ u[1] = 48 /\ u[2] \in {88, 120}
        radix == IF hex THEN 16 ELSE 10
        w     == IF hex THEN SubSeq(u, 3, Len(u)) ELSE u
        cnt   == IF \A i \in 1..Len(w) : DigitVal(w[i], radix) >= 0
                 THEN Len(w)
                 ELSE (CHOOSE i \in 1..Len(w) :
                          /\ DigitVal(w[i], radix) < 0
                          /\ \A j \in 1..(i - 1) : DigitVal(w[j], radix) >= 0) - 1
        val[i \in 0..cnt] ==
            IF i = 0 THEN 0 ELSE val[i - 1] * radix + DigitVal(w[i], radix)
    IN IF cnt = 0 THEN NaN
       ELSE Num(IF neg THEN 0 - val[cnt] ELSE val[cnt])

\* x === y for a number x and the value of parseInt
StrictEquals(x, p) == ~p.nan /\ x = p.n

RECURSIVE Decimal(_)
\* the decimal digits of a natural number
Decimal(n) ==
    IF n < 10 THEN <<48 + n>> ELSE Append(Decimal(n \div 10), 48 + (n % 10))

-----------------------------------------------------------------------------
(* Time *)

TimeUnit == 100000

\* a timestamp hi * TimeUnit + lo
Time(hi, lo) == [hi |-> hi, lo |-> lo]

\* the sign of a.getTime() - b.getTime()
TimeDiff(a, b) ==
    IF a.hi # b.hi THEN (IF a.hi > b.hi THEN 1 ELSE -1)
    ELSE IF a.lo # b.lo THEN (IF a.lo > b.lo THEN 1 ELSE -1)
    ELSE 0

\* the timestamp d milliseconds after t
TimePlus(t, d) ==
    Time(t.hi + ((t.lo + d) \div TimeUnit), (t.lo + d) % TimeUnit)

\* String(t) for a timestamp, as in the template literal of the id
TimeString(t) ==
    IF t.hi = 0 THEN Decimal(t.lo)
    ELSE LET d == Decimal(t.lo)
         IN Decimal(t.hi) \o [i \in 1..(5 - Len(d)) |-> 48] \o d

-----------------------------------------------------------------------------
(* Vocabularies and dictionaries *)

All == Str("All")

DEPARTMENTS ==
    << Str("Executive Committee"), Str("Missions Department"),
       Str("Nurture & Education Department"),
       Str("Pastoral Department (Adult Zone)"),
       Str("Pastoral Department (Youth Zone)"),
       Str("Pastoral Department (Children Zone)"),
       Str("Admin & Resources Department"), Str("Worship Department") >>

MINISTRIES ==
    << Str("General"), Str("Short-term Mission"), Str("English Class"),
       Str("Cha Kwo Ling Community"), Str("Mommy's Group"),
       Str("Homework Class"), Str("Shared Space") >>

DOC_TYPES ==
    << Str("Meeting Minutes"), Str("Annual Plan"), Str("Project Plan"),
       Str("Budget Report"), Str("Event Proposal") >>

STATUSES == << Str("Draft"), Str("Final"), Str("For Review") >>

\* new Date().getFullYear() when the module is loaded
CurrentYear == 2026

YEARS == [i \in 1..10 |-> CurrentYear - (i - 1)]

\* The dictionaries are object literals: sequences of <<key, value>> entries
\* in insertion order.  The zh values are given by their code units.

\* translationsMap.departments
departments ==
    << <<Str("Executive Committee"), <<20107, 24037, 22996, 21729, 26371>>>>,
       <<Str("Missions Department"), <<23459, 25945, 37096>>>>,
       <<Str("Nurture & Education Department"), <<22521, 32946, 37096>>>>,
       <<Str("Pastoral Department (Adult Zone)"), <<29287, 39178, 37096, 25104, 20154, 29287, 21312>>>>,
       <<Str("Pastoral Department (Youth Zone)"), <<29287, 39178, 37096, 38738, 23569, 24180, 29287, 21312>>>>,
       <<Str("Pastoral Department (Children Zone)"), <<29287, 39178, 37096, 20818, 31461, 29287, 21312>>>>,
       <<Str("Admin & Resources Department"), <<34892, 25919, 36039, 28304, 37096>>>>,
       <<Str("Worship Department"), <<25964, 25308, 37096>>>> >>

\* translationsMap.ministries
ministries ==
    << <<Str("General"), <<19968, 33324>>>>,
       <<Str("Short-term Mission"), <<30701, 23459>>>>,
       <<Str("English Class"), <<33521, 25991, 29677>>>>,
       <<Str("Cha Kwo Ling Community"), <<33590, 26524, 23994, 31038, 21312>>>>,
       <<Str("Mommy's Group"), <<23229, 21674, 23567, 32068>>>>,
       <<Str("Homework Class"), <<21151, 35506, 29677>>>>,
       <<Str("Shared Space"), <<20849, 20139, 31354, 38291>>>> >>

\* translationsMap.docTypes
docTypes ==
    << <<Str("Meeting Minutes"), <<26371, 35696, 35352, 37636>>>>,
       <<Str("Annual Plan"), <<24180, 24230, 35336, 21123>>>>,
       <<Str("Project Plan"), <<38917, 30446, 35336, 21123>>>>,
       <<Str("Budget Report"), <<38928, 31639, 22577, 21578>>>>,
       <<Str("Event Proposal"), <<27963, 21205, 25552, 26696>>>> >>

\* translationsMap.statuses
statuses ==
    << <<Str("Draft"), <<33609, 31295>>>>,
       <<Str("Final"), <<26368, 32066, 29256>>>>,
       <<Str("For Review"), <<23529, 26680, 20013>>>> >>

\* titleTranslations: English title -> zh title
titleTranslations ==
    << <<Str("Executive Committee Meeting Minutes"), <<20107, 22996, 26371, 35696, 20107, 35352, 37636>>>>,
       <<Str("Pastoral Dept. (Children) 2024 Annual Plan"), <<29287, 39178, 37096, 20818, 31461, 29287, 21312, 50, 48, 50, 52, 24180, 24230, 35336, 21123>>>>,
       <<Str("Monthly Financial Report"), <<26376, 26371, 36001, 21209, 22577, 34920>>>>,
       <<Str("Short-term Mission Proposal"), <<33590, 26524, 23994, 21312, 27963, 21205, 38928, 31639>>>> >>

translationsMap ==
    [departments |-> departments, ministries |-> ministries,
     docTypes |-> docTypes, statuses |-> statuses]

\* Values that are not strings are written with a negative first element,
\* which no code unit is: a function by its name, and the object
\* Object.prototype.
FunctionValue(name) == <<-1>> \o name
ObjectPrototypeValue == <<-2>>
IsString(v) == \A i \in 1..Len(v) : v[i] >= 0

\* The properties an object literal inherits from Object.prototype.
ObjectPrototype ==
    << <<Str("constructor"), FunctionValue(Str("Object"))>>,
       <<Str("__defineGetter__"), FunctionValue(Str("__defineGetter__"))>>,
       <<Str("__defineSetter__"), FunctionValue(Str("__defineSetter__"))>>,
       <<Str("hasOwnProperty"), FunctionValue(Str("hasOwnProperty"))>>,
       <<Str("__lookupGetter__"), FunctionValue(Str("__lookupGetter__"))>>,
       <<Str("__lookupSetter__"), FunctionValue(Str("__lookupSetter__"))>>,
       <<Str("isPrototypeOf"), FunctionValue(Str("isPrototypeOf"))>>,
       <<Str("propertyIsEnumerable"), FunctionValue(Str("propertyIsEnumerable"))>>,
       <<Str("toString"), FunctionValue(Str("toString"))>>,
       <<Str("valueOf"), FunctionValue(Str("valueOf"))>>,
       <<Str("__proto__"), ObjectPrototypeValue>>,
       <<Str("toLocaleString"), FunctionValue(Str("toLocaleString"))>> >>

\* the own entries of an object literal
HasOwnEntry(dict, key) == \E i \in 1..Len(dict) : dict[i][1] = key

OwnEntry(dict, key) == dict[CHOOSE i \in 1..Len(dict) : dict[i][1] = key][2]

\* dict[key] for an object literal: the value of the own entry, else the
\* inherited property, else undefined (HasEntry is dict[key] !== undefined)
HasEntry(dict, key) == HasOwnEntry(dict, key) \/ HasOwnEntry(ObjectPrototype, key)

Entry(dict, key) ==
    IF HasOwnEntry(dict, key) THEN OwnEntry(dict, key)
    ELSE OwnEntry(ObjectPrototype, key)

\* truthiness of dict[key]: undefined and the empty string are falsy,
\* functions and objects are truthy
Truthy(dict, key) == HasEntry(dict, key) /\ Entry(dict, key) # <<>>

-----------------------------------------------------------------------------
(* Locale rendering *)

Languages == {"en", "zh"}

getTranslatedValue(lang, category, value) ==
    IF lang = "zh" /\ Truthy(translationsMap[category], value)
    THEN Entry(translationsMap[category], value)
    ELSE value

\* Object.entries(titleTranslations).find(([_, val]) => val === title):
\* the index of the first entry whose value is the title, or 0
ReverseTitleIndex(title) ==
    IF \E i \in 1..Len(titleTranslations) : titleTranslations[i][2] = title
    THEN CHOOSE i \in 1..Len(titleTranslations) :
            /\ titleTranslations[i][2] = title
            /\ \A j \in 1..(i - 1) : titleTranslations[j][2] # title
    ELSE 0

\* Object.entries lists own entries only, so the reverse search does not see
\* the inherited properties
getTranslatedDocTitle(lang, title) ==
    IF lang = "zh" /\ Truthy(titleTranslations, title)
    THEN Entry(titleTranslations, title)
    ELSE IF lang = "en" /\ ReverseTitleIndex(title) # 0
         THEN titleTranslations[ReverseTitleIndex(title)][1]
         ELSE title

\* translations[language].formError
formErrorText ==
    [en |-> Str("Please provide a title and select a file."),
     zh |-> <<35531, 25552, 20379, 27161, 38988, 20006, 36984, 25799, 19968,
              20491, 25991, 20214, 12290>>]

\* t('formError')
formError(lang) == formErrorText[lang]

-----------------------------------------------------------------------------
(* Documents *)

Null == <<"null">>
File(name) == <<"File", name>>
dummyFile == File(Str("dummy.txt"))

Doc(id, title, file, department, ministry, docType, year, status, uploadDate) ==
    [id |-> id, title |-> title, file |-> file, department |-> department,
     ministry |-> ministry, docType |-> docType, year |-> year,
     status |-> status, uploadDate |-> uploadDate]

\* new Date('2023-03-15') and the other dates of the seeded documents
Date_2023_03_15 == Time(16788384, 0)
Date_2024_01_20 == Time(17057088, 0)
Date_2023_11_05 == Time(16991424, 0)
Date_2024_05_10 == Time(17152992, 0)

initialDocs ==
    << Doc(Str("1"), Str("Executive Committee Meeting Minutes"), dummyFile,
           Str("Executive Committee"), Str("General"), Str("Meeting Minutes"),
           2023, Str("Final"), Date_2023_03_15),
       Doc(Str("2"), Str("Pastoral Dept. (Children) 2024 Annual Plan"), dummyFile,
           Str("Pastoral Department (Children Zone)"), Str("General"),
           Str("Annual Plan"), 2024, Str("Draft"), Date_2024_01_20),
       Doc(Str("3"), Str("Monthly Financial Report"), dummyFile,
           Str("Admin & Resources Department"), Str("General"),
           Str("Budget Report"), 2023, Str("For Review"), Date_2023_11_05),
       Doc(Str("4"), Str("Short-term Mission Proposal"), dummyFile,
           Str("Missions Department"), Str("Short-term Mission"),
           Str("Event Proposal"), 2024, Str("Draft"), Date_2024_05_10) >>

initialFilters ==
    [searchTerm |-> <<>>, department |-> All, ministry |-> All,
     docType |-> All, year |-> All, status |-> All]

-----------------------------------------------------------------------------
(* filteredDocuments *)

\* variant: the status facet is not compared
FacetMatchesIgnoringStatus(doc, f) ==
    /\ (f.department = All \/ doc.department = f.department)
    /\ (f.ministry = All \/ doc.ministry = f.ministry)
    /\ (f.docType = All \/ doc.docType = f.docType)
    /\ (f.year = All \/ StrictEquals(doc.year, ParseInt(f.year)))

\* the predicate of documents.filter(...)
FacetMatches(doc, f) ==
    /\ (f.department = All \/ doc.department = f.department)
    /\ (f.ministry = All \/ doc.ministry = f.ministry)
    /\ (f.docType = All \/ doc.docType = f.docType)
    /\ (f.year = All \/ StrictEquals(doc.year, ParseInt(f.year)))
    /\ (f.status = All \/ doc.status = f.status)

\* let filtered = documents.filter(...)
FacetFilter(docs, f) == SelectSeq(docs, LAMBDA doc : FacetMatches(doc, f))

\* Array.prototype.sort with a comparison function, given by its values
\* cmp[i][j] on the elements s[i] and s[j]: the sort is stable, so the place of
\* s[i] is fixed by the elements that compare before it and the equal
\* elements that precede it
ArraySort(s, cmp) ==
    LET place(i) ==
            1 + Cardinality({j \in 1..Len(s) :
                                \/ cmp[j][i] < 0
                                \/ (cmp[j][i] = 0 /\ j < i)})
    IN [k \in 1..Len(s) |-> s[CHOOSE i \in 1..Len(s) : place(i) = k]]

\* (a, b) => b.uploadDate.getTime() - a.uploadDate.getTime()
CompareUploadDate(a, b) == TimeDiff(b.uploadDate, a.uploadDate)

\* variant: ascending order of relevance
CompareRelevanceAscending(a, b) == a.relevanceScore - b.relevanceScore

\* (a, b) => b.relevanceScore - a.relevanceScore
CompareRelevance(a, b) == b.relevanceScore - a.relevanceScore

\* variant: the search term is tested without trimming
IsBlankUntrimmed(searchTerm) == searchTerm = <<>>

\* !searchTerm.trim()
IsBlank(searchTerm) == Trim(searchTerm) = <<>>

\* const lowerCaseSearchTerm = searchTerm.toLowerCase()
LowerCaseSearchTerm(searchTerm) == ToLowerCase(searchTerm)

\* variant: the rendered fields are not lowercased before the test
RelevanceScoreCaseSensitive(doc, searchTerm, lang) ==
    LET q     == ToLowerCase(searchTerm)
        title == getTranslatedDocTitle(lang, doc.title)
        type  == getTranslatedValue(lang, "docTypes", doc.docType)
        dept  == getTranslatedValue(lang, "departments", doc.department)
    IN (IF Includes(title, q) THEN 3 ELSE 0)
       + (IF Includes(type, q) THEN 2 ELSE 0)
       + (IF Includes(dept, q) THEN 1 ELSE 0)

\* variant: the status label is scored too
RelevanceScoreWithStatus(doc, searchTerm, lang) ==
    LET q      == ToLowerCase(searchTerm)
        title  == ToLowerCase(getTranslatedDocTitle(lang, doc.title))
        type   == ToLowerCase(getTranslatedValue(lang, "docTypes", doc.docType))
        dept   == ToLowerCase(getTranslatedValue(lang, "departments", doc.department))
        status == ToLowerCase(getTranslatedValue(lang, "statuses", doc.status))
    IN (IF Includes(title, q) THEN 3 ELSE 0)
       + (IF Includes(type, q) THEN 2 ELSE 0)
       + (IF Includes(dept, q) THEN 1 ELSE 0)
       + (IF Includes(status, q) THEN 1 ELSE 0)

\* the exception of a call of toLowerCase on a value that is not a string,
\* standing where a result would
TypeError == <<[error |-> "TypeError"]>>

\* one of the three .toLowerCase() calls of the map callback throws: the
\* rendered title, docType label or department label is not a string
ScoreThrows(doc, lang) ==
    \/ ~IsString(getTranslatedDocTitle(lang, doc.title))
    \/ ~IsString(getTranslatedValue(lang, "docTypes", doc.docType))
    \/ ~IsString(getTranslatedValue(lang, "departments", doc.department))

\* the sum of the map callback: 3 for the title, 2 for the document type,
\* 1 for the department that includes the lowered search term
FieldScore(title, type, dept, q) ==
    (IF Includes(title, q) THEN 3 ELSE 0)
    + (IF Includes(type, q) THEN 2 ELSE 0)
    + (IF Includes(dept, q) THEN 1 ELSE 0)

\* the relevanceScore computed in the map callback
RelevanceScore(doc, searchTerm, lang) ==
    IF ScoreThrows(doc, lang) THEN TypeError
    ELSE FieldScore(ToLowerCase(getTranslatedDocTitle(lang, doc.title)),
                    ToLowerCase(getTranslatedValue(lang, "docTypes", doc.docType)),
                    ToLowerCase(getTranslatedValue(lang, "departments", doc.department)),
                    LowerCaseSearchTerm(searchTerm))

\* { ...doc, relevanceScore }
WithScore(doc, score) ==
    [k \in DOMAIN doc \cup {"relevanceScore"} |->
        IF k = "relevanceScore" THEN score ELSE doc[k]]

\* .sort((a, b) => b.relevanceScore - a.relevanceScore) on the kept documents
SortByRelevance(kept) ==
    ArraySort(kept,
              [i \in 1..Len(kept) |-> [j \in 1..Len(kept) |->
                  CompareRelevance(kept[i], kept[j])]])

\* the ranking applied to the facet-filtered documents; the exception of
\* the map callback leaves the computation
Rank(fdocs, searchTerm, lang) ==
    IF IsBlank(searchTerm)
    THEN ArraySort(fdocs,
                   [i \in 1..Len(fdocs) |-> [j \in 1..Len(fdocs) |->
                       CompareUploadDate(fdocs[i], fdocs[j])]])
    ELSE IF \E i \in 1..Len(fdocs) : ScoreThrows(fdocs[i], lang)
    THEN TypeError
    ELSE LET scored == [i \in 1..Len(fdocs) |->
                           WithScore(fdocs[i],
                                     RelevanceScore(fdocs[i], searchTerm, lang))]
         IN SortByRelevance(SelectSeq(scored, LAMBDA d : d.relevanceScore > 0))

filteredDocuments(docs, f, lang) == Rank(FacetFilter(docs, f), f.searchTerm, lang)

-----------------------------------------------------------------------------
(* The application: state after construction and the handlers *)

\* the clock when the page is loaded: 2026-10-31T00:00:00Z
ClockStart == Time(17934048, 0)

\* milliseconds elapsed since the page was loaded
Elapsed(t) == (t.hi - ClockStart.hi) * TimeUnit + (t.lo - ClockStart.lo)

\* the state of a freshly mounted UploadForm
initialForm ==
    [title |-> <<>>, file |-> Null, department |-> DEPARTMENTS[1],
     ministry |-> MINISTRIES[1], docType |-> DOC_TYPES[1], year |-> YEARS[1],
     status |-> STATUSES[1], error |-> <<>>]

noProbe == [fn |-> "none", category |-> "none", value |-> <<>>, out |-> <<>>]

\* values entered in the filter panel
FilterChoices ==
    [searchTerm |-> {<<>>, Str("report")},
     year       |-> {All, Str("2026")}]

\* values entered in the upload form
FormChoices ==
    [title |-> {<<>>, Str("__proto__"),
                <<26376, 26371, 36001, 21209, 22577, 34920>>},
     file  |-> {Null, File(Str("minutes.pdf"))}]

Init ==
    /\ documents = <<>>
    /\ filters = initialFilters
    /\ isUploading = FALSE
    /\ language = "en"
    /\ form = initialForm
    /\ now = ClockStart
    /\ filtered = <<>>
    /\ result = <<>>
    /\ probe = noProbe
    /\ pc = "mounting"

\* the render that follows a state update: useMemo recomputes
\* filteredDocuments from the new documents, filters and language
Rerender ==
    /\ filtered' = FacetFilter(documents', filters')
    /\ result' = Rank(filtered', filters'.searchTerm, language')

\* a value React cannot render as a child: an object that is no element (a
\* string is rendered as text, a function as nothing)
InvalidChild(v) == v = ObjectPrototypeValue

\* DocumentCard throws while rendering: the rendered title or one of the
\* rendered labels is no valid child
DocumentCardThrows(doc, lang) ==
    \/ InvalidChild(getTranslatedDocTitle(lang, doc.title))
    \/ InvalidChild(getTranslatedValue(lang, "departments", doc.department))
    \/ InvalidChild(getTranslatedValue(lang, "ministries", doc.ministry))
    \/ InvalidChild(getTranslatedValue(lang, "docTypes", doc.docType))
    \/ InvalidChild(getTranslatedValue(lang, "statuses", doc.status))

\* DocumentList renders one card for each document of the result
DocumentListThrows(docs, lang) ==
    \E i \in 1..Len(docs) : DocumentCardThrows(docs[i], lang)

\* the positions in which the application is mounted and handles events
Running == {"mounting", "mounted"}

\* an exception thrown while rendering, by the memo or by a card of the
\* list, is caught by no error boundary: React unmounts the application, and
\* no handler runs any more; a render that returns leaves the application at
\* the position next
AfterRender(next, value, lang) ==
    IF value = TypeError THEN "crashed"
    ELSE IF DocumentListThrows(value, lang) THEN "crashed"
    ELSE next

\* useEffect(() => { ...; setDocuments(initialDocs) }, []): a passive effect
\* of the first render under createRoot.  The first render is committed with
\* the empty collection; the effect runs in a later task, or when the next
\* render begins, and its update is rendered in a task of its own, so event
\* handlers run and render before it.  The update of the effect is queued
\* before every update of handleAddDocument (the upload form is rendered only
\* after a render that has run the effect), and React applies the queue in
\* order when it renders the update: initialDocs first, then the uploads made
\* in between on top of it, [newDocument, ...prevDocs].
Seed ==
    /\ pc = "mounting"
    /\ documents' = documents \o initialDocs
    /\ UNCHANGED <<filters, language>>
    /\ Rerender
    /\ pc' = AfterRender("mounted", result', language')
    /\ UNCHANGED <<isUploading, form, now, probe>>

\* handleFilterChange: setFilters(prev => ({ ...prev, [name]: value }))
handleFilterChange(name, value) ==
    /\ pc \in Running
    /\ filters' = [filters EXCEPT ![name] = value]
    /\ UNCHANGED <<documents, language>>
    /\ Rerender
    /\ pc' = AfterRender(pc, result', language')
    /\ UNCHANGED <<isUploading, form, now, probe>>

clearFilters ==
    /\ pc \in Running
    /\ filters' = initialFilters
    /\ UNCHANGED <<documents, language>>
    /\ Rerender
    /\ pc' = AfterRender(pc, result', language')
    /\ UNCHANGED <<isUploading, form, now, probe>>

\* setLanguage(lang => lang === 'en' ? 'zh' : 'en')
toggleLanguage ==
    /\ pc \in Running
    /\ language' = (IF language = "en" THEN "zh" ELSE "en")
    /\ UNCHANGED <<documents, filters>>
    /\ Rerender
    /\ pc' = AfterRender(pc, result', language')
    /\ UNCHANGED <<isUploading, form, now, probe>>

\* setIsUploading(!isUploading): the UploadForm is mounted with fresh state
\* or unmounted
toggleUploadForm ==
    /\ pc \in Running
    /\ isUploading' = ~isUploading
    /\ form' = initialForm
    /\ UNCHANGED <<documents, filters, language, now, filtered, result, probe, pc>>

\* the onChange handlers of the upload form's inputs
formChange(name, value) ==
    /\ pc \in Running
    /\ isUploading
    /\ form' = [form EXCEPT ![name] = value]
    /\ UNCHANGED <<documents, filters, language, isUploading, now, filtered,
                   result, probe, pc>>

\* the document built by handleAddDocument; idTime and dateTime are the clock
\* readings of Date.now() and new Date()
idPrefix == Str("doc_")

newDocument(doc, idTime, dateTime) ==
    Doc(idPrefix \o TimeString(idTime), doc.title, doc.file, doc.department,
        doc.ministry, doc.docType, doc.year, doc.status, dateTime)

\* variant: the new document replaces the collection
handleAddDocumentReplacing(doc, idTime, dateTime, prevDocs) ==
    <<newDocument(doc, idTime, dateTime)>>

\* variant: the new document is put at the end of the collection
handleAddDocumentAppending(doc, idTime, dateTime, prevDocs) ==
    prevDocs \o <<newDocument(doc, idTime, dateTime)>>

\* setDocuments(prevDocs => [newDocument, ...prevDocs])
handleAddDocument(doc, idTime, dateTime, prevDocs) ==
    <<newDocument(doc, idTime, dateTime)>> \o prevDocs

\* variant: only the title is checked before the document is added
handleSubmitTitleOnly ==
    /\ pc \in Running
    /\ isUploading
    /\ IF form.title = <<>>
       THEN /\ form' = [form EXCEPT !.error = formError(language)]
            /\ UNCHANGED <<documents, filters, language, isUploading, now,
                           filtered, result, pc>>
       ELSE /\ Len(documents) < (IF pc = "mounting" THEN 0 ELSE Len(initialDocs))
                                + MaxUploads
            /\ \E d0, d1 \in 0..1 :
                  /\ Elapsed(now) + d0 + d1 <= MaxTicks
                  /\ now' = TimePlus(now, d0 + d1)
                  /\ documents' = handleAddDocument(form, TimePlus(now, d0),
                                                    now', documents)
            /\ isUploading' = FALSE
            /\ form' = initialForm
            /\ UNCHANGED <<filters, language>>
            /\ Rerender
            /\ pc' = AfterRender(pc, result', language')
    /\ UNCHANGED probe

\* UploadForm.handleSubmit, with handleAddDocument when the form is accepted.
\* The clock is read twice, by Date.now() and by new Date(): d0 milliseconds
\* have passed since the previous reading and d1 between the two readings.
handleSubmit ==
    /\ pc \in Running
    /\ isUploading
    /\ IF form.title = <<>> \/ form.file = Null
       THEN /\ form' = [form EXCEPT !.error = formError(language)]
            /\ UNCHANGED <<documents, filters, language, isUploading, now,
                           filtered, result, pc>>
       ELSE /\ Len(documents) < (IF pc = "mounting" THEN 0 ELSE Len(initialDocs))
                                + MaxUploads
            /\ \E d0, d1 \in 0..1 :
                  /\ Elapsed(now) + d0 + d1 <= MaxTicks
                  /\ now' = TimePlus(now, d0 + d1)
                  /\ documents' = handleAddDocument(form, TimePlus(now, d0),
                                                    now', documents)
            /\ isUploading' = FALSE
            /\ form' = initialForm
            /\ UNCHANGED <<filters, language>>
            /\ Rerender
            /\ pc' = AfterRender(pc, result', language')
    /\ UNCHANGED probe

Next ==
    \/ Seed
    \/ \E name \in DOMAIN FilterChoices :
          \E value \in FilterChoices[name] : handleFilterChange(name, value)
    \/ clearFilters
    \/ toggleLanguage
    \/ toggleUploadForm
    \/ \E name \in DOMAIN FormChoices :
          \E value \in FormChoices[name] : formChange(name, value)
    \/ handleSubmit

Spec == Init /\ [][Next]_vars

-----------------------------------------------------------------------------
(* filteredDocuments as a function of its inputs *)

\* two uploaded documents, added within the same millisecond
uploadA ==
    Doc(Str("doc_1793404800000"), Str("Annual Report"), File(Str("minutes.pdf")),
        Str("Admin & Resources Department"), Str("Short-term Mission"),
        Str("Annual Plan"),
        2026, Str("Draft"), Time(17934048, 1))

uploadZ ==
    Doc(Str("doc_1793404800001"), <<26376, 26371, 36001, 21209, 22577, 34920>>,
        File(Str("minutes.pdf")), Str("Executive Committee"), Str("General"),
        Str("Budget Report"), 2023, Str("Draft"), Time(17934048, 1))

\* an uploaded document with the title, docType and department of the third
\* seeded document and another ministry, year, status, id, file and date
uploadB ==
    Doc(Str("doc_1793404800002"), Str("Monthly Financial Report"),
        File(Str("minutes.pdf")), Str("Admin & Resources Department"),
        Str("Short-term Mission"), Str("Budget Report"), 2024, Str("Draft"),
        Time(17934048, 2))

\* an uploaded document whose title is the name of a property that every
\* object literal inherits
uploadP ==
    Doc(Str("doc_1793404800003"), Str("constructor"), File(Str("minutes.pdf")),
        Str("Executive Committee"), Str("General"), Str("Meeting Minutes"),
        2026, Str("Draft"), Time(17934048, 3))

\* the documents a collection is drawn from
DocPool == {initialDocs[1], initialDocs[3], uploadA, uploadZ, uploadB, uploadP}

\* the collections: sequences without repetition of at most MaxDocs documents
Collections ==
    UNION {{s \in [1..n -> DocPool] : \A i, j \in 1..n : s[i] = s[j] => i = j} :
           n \in 0..MaxDocs}

\* the filter criteria
QueryFilters ==
    [searchTerm : {<<>>, <<32, 9>>, Str("report"), Str("Report "), Str("mi"),
                   <<26371>>, Str("f")},
     department : {All, Str("Executive Committee")},
     ministry   : {All, Str("General")},
     docType    : {All, Str("Budget Report")},
     year       : {All, Str("2023"), Str("2023abc"), Str("abc")},
     status     : {All, Str("Draft")}]

InitQuery ==
    /\ documents \in Collections
    /\ filters \in QueryFilters
    /\ language \in Languages
    /\ isUploading = FALSE
    /\ form = initialForm
    /\ now = ClockStart
    /\ filtered = <<>>
    /\ result = <<>>
    /\ probe = noProbe
    /\ pc = "input"

\* one evaluation of filteredDocuments, which returns or throws
Query ==
    /\ pc = "input"
    /\ UNCHANGED <<documents, filters, language>>
    /\ Rerender
    /\ pc' = (IF result' = TypeError THEN "thrown" ELSE "output")
    /\ UNCHANGED <<isUploading, form, now, probe>>

NextQuery == Query

SpecQuery == InitQuery /\ [][NextQuery]_vars

-----------------------------------------------------------------------------
(* The locale rendering helpers as functions of their inputs *)

Categories == {"departments", "ministries", "docTypes", "statuses"}

DictKeys(dict) == {dict[i][1] : i \in 1..Len(dict)}
DictValues(dict) == {dict[i][2] : i \in 1..Len(dict)}

\* raw values: the keys and the zh values of every dictionary, and strings
\* that no dictionary knows
RawValues ==
    UNION {DictKeys(translationsMap[c]) \cup DictValues(translationsMap[c]) :
           c \in Categories}
    \cup DictKeys(titleTranslations) \cup DictValues(titleTranslations)
    \cup {<<>>, Str("Annual Report"), Str("general"), All}
    \cup DictKeys(ObjectPrototype)

InitRender ==
    /\ language \in Languages
    /\ probe \in [fn : {"getTranslatedValue"}, category : Categories,
                  value : RawValues, out : {<<>>}]
            \cup [fn : {"getTranslatedDocTitle"}, category : {"none"},
                  value : RawValues, out : {<<>>}]
    /\ documents = <<>>
    /\ filters = initialFilters
    /\ isUploading = FALSE
    /\ form = initialForm
    /\ now = ClockStart
    /\ filtered = <<>>
    /\ result = <<>>
    /\ pc = "input"

callGetTranslatedValue ==
    /\ pc = "input"
    /\ probe.fn = "getTranslatedValue"
    /\ probe' = [probe EXCEPT
                    !.out = getTranslatedValue(language, probe.category, probe.value)]
    /\ pc' = "output"
    /\ UNCHANGED <<documents, filters, isUploading, language, form, now,
                   filtered, result>>

callGetTranslatedDocTitle ==
    /\ pc = "input"
    /\ probe.fn = "getTranslatedDocTitle"
    /\ probe' = [probe EXCEPT !.out = getTranslatedDocTitle(language, probe.value)]
    /\ pc' = "output"
    /\ UNCHANGED <<documents, filters, isUploading, language, form, now,
                   filtered, result>>

NextRender == callGetTranslatedValue \/ callGetTranslatedDocTitle

SpecRender == InitRender /\ [][NextRender]_vars

-----------------------------------------------------------------------------
(* Properties of filteredDocuments, checked under SpecQuery *)

\* C1 - Facet filter AND-semantics: the facet stage keeps, in their order,
\* exactly the documents whose raw attribute equals the constraint of every
\* facet that is not the wildcard 'All' (the year compared with the integer
\* parsed from the constraint); the language does not enter the test.
C1_FacetAndSemantics ==
    pc \in {"output", "thrown"} =>
        LET facetOk(d, k) == filters[k] = All \/ d[k] = filters[k]
            yearOk(d) ==
                \/ filters.year = All
                \/ /\ ~ParseInt(filters.year).nan
                   /\ d.year = ParseInt(filters.year).n
            passes(d) ==
                /\ \A k \in {"department", "ministry", "docType", "status"} :
                      facetOk(d, k)
                /\ yearOk(d)
        IN /\ filtered = SelectSeq(documents, passes)
           /\ \A i \in 1..Len(documents) :
                 passes(documents[i]) <=>
                    \E j \in 1..Len(filtered) : filtered[j] = documents[i]

\* a facet result, computed under zh, that some documents pass and others
\* fail although two facets are constrained
C1_Witness ==
    /\ pc = "output"
    /\ language = "zh"
    /\ filters.department # All
    /\ filters.status # All
    /\ filters.year = Str("2023")
    /\ Len(filtered) >= 1
    /\ Len(filtered) < Len(documents)
    /\ \E i \in 1..Len(documents) :
          /\ documents[i].department = filters.department
          /\ documents[i].status # filters.status

\* C2 - Relevance score and exclusion: with a search text that is not blank,
\* the computation gives a result in which every document carries the score
\* 3 * [rendered title contains the query] + 2 * [rendered docType label
\* contains it] + 1 * [rendered department label contains it]
\* (case-insensitively), and a document of the collection is in the result
\* iff it passes the facet filter and its score is greater than 0.
C2_ScoreAndExclusion ==
    (pc \in {"output", "thrown"} /\ Trim(filters.searchTerm) # <<>>) =>
        LET q == ToLowerCase(filters.searchTerm)
            inTitle(d) ==
                Includes(ToLowerCase(getTranslatedDocTitle(language, d.title)), q)
            inType(d) ==
                Includes(ToLowerCase(getTranslatedValue(language, "docTypes",
                                                        d.docType)), q)
            inDept(d) ==
                Includes(ToLowerCase(getTranslatedValue(language, "departments",
                                                        d.department)), q)
            score(d) == (IF inTitle(d) THEN 3 ELSE 0) + (IF inType(d) THEN 2 ELSE 0)
                        + (IF inDept(d) THEN 1 ELSE 0)
            plain(r) == [k \in DOMAIN r \ {"relevanceScore"} |-> r[k]]
        IN /\ pc = "output"
           /\ \A j \in 1..Len(result) :
                 /\ result[j].relevanceScore = score(plain(result[j]))
                 /\ result[j].relevanceScore > 0
                 /\ (inTitle(result[j]) /\ inType(result[j]) /\ inDept(result[j]))
                       => result[j].relevanceScore = 6
                 /\ (inTitle(result[j]) /\ ~inType(result[j]) /\ ~inDept(result[j]))
                       => result[j].relevanceScore = 3
           /\ \A i \in 1..Len(documents) :
                 (FacetMatches(documents[i], filters) /\ score(documents[i]) > 0)
                    <=> \E j \in 1..Len(result) : plain(result[j]) = documents[i]
           /\ Len(result) <= Len(filtered)

\* C3 - Relevance ordering with stable ties: with a search text that is not
\* blank, no document of the result precedes one with a higher score, and two
\* documents of equal score are in the relative order they have in the
\* facet-filtered input, which is the order of the stored collection.
C3_RelevanceOrderStable ==
    (pc = "output" /\ Trim(filters.searchTerm) # <<>>) =>
        LET plain(r) == [k \in DOMAIN r \ {"relevanceScore"} |-> r[k]]
            posIn(s, r) == CHOOSE i \in 1..Len(s) : s[i] = plain(r)
        IN \A j, k \in 1..Len(result) :
              j < k =>
                 /\ result[j].relevanceScore >= result[k].relevanceScore
                 /\ result[j].relevanceScore = result[k].relevanceScore
                       => /\ posIn(filtered, result[j]) < posIn(filtered, result[k])
                          /\ posIn(documents, result[j]) < posIn(documents, result[k])

\* a relevance result in which the sort moved a document forward, and in which
\* two documents of equal score stand older first
C3_Witness ==
    /\ pc = "output"
    /\ Trim(filters.searchTerm) # <<>>
    /\ Len(result) >= 3
    /\ result[1].id # filtered[1].id
    /\ \E j, k \in 1..Len(result) :
          /\ j < k
          /\ result[j].relevanceScore = result[k].relevanceScore
          /\ TimeDiff(result[j].uploadDate, result[k].uploadDate) < 0

\* C4 - Recency mode: when the search text is empty after trimming, the result
\* holds exactly the facet-filtered documents, ordered by uploadDate
\* descending, documents of equal uploadDate in their input order.
C4_RecencyMode ==
    (pc \in {"output", "thrown"} /\ Trim(filters.searchTerm) = <<>>) =>
        LET posIn(s, r) == CHOOSE i \in 1..Len(s) : s[i] = r
        IN /\ pc = "output"
           /\ Len(result) = Len(filtered)
           /\ \A i \in 1..Len(filtered) :
                 \E j \in 1..Len(result) : result[j] = filtered[i]
           /\ \A j, k \in 1..Len(result) :
                 j < k =>
                    /\ TimeDiff(result[j].uploadDate, result[k].uploadDate) >= 0
                    /\ TimeDiff(result[j].uploadDate, result[k].uploadDate) = 0
                          => posIn(filtered, result[j]) < posIn(filtered, result[k])

\* a recency result for a search text of white space only, in which the sort
\* moved a document forward and two documents have the same uploadDate
C4_Witness ==
    /\ pc = "output"
    /\ filters.searchTerm = <<32, 9>>
    /\ Len(result) >= 3
    /\ result[1] # filtered[1]
    /\ \E j, k \in 1..Len(result) :
          j < k /\ TimeDiff(result[j].uploadDate, result[k].uploadDate) = 0

\* C5 - The query is trimmed before the substring test: a search text that is
\* not blank gives the same result (documents, scores, order) as the same
\* text with the surrounding white space removed.
C5_TrimmedQuerySameResult ==
    (pc = "output" /\ Trim(filters.searchTerm) # <<>>) =>
        result = filteredDocuments(documents,
                                   [filters EXCEPT !.searchTerm = Trim(@)],
                                   language)

\* C8 - A year constraint that is neither 'All' nor a decimal integer matches
\* no document: the facet stage is empty.
C8_NonNumericYearNoMatch ==
    LET y == filters.year
        digits(s) == s # <<>> /\ \A i \in 1..Len(s) : s[i] \in 48..57
        decimalInteger ==
            digits(y) \/ (y # <<>> /\ Head(y) \in {43, 45} /\ digits(Tail(y)))
    IN (pc \in {"output", "thrown"} /\ y # All /\ ~decimalInteger)
          => filtered = <<>>

\* C9 as stated - End-to-end example: for the collection [doc A, doc B], all
\* facets 'All', language en and the query 'report', the result is doc B
\* alone with relevance score 3, and doc A is left out.
C9_ExampleScoreThree ==
    ( /\ pc = "output"
      /\ documents = <<initialDocs[1], initialDocs[3]>>
      /\ filters = [initialFilters EXCEPT !.searchTerm = Str("report")]
      /\ language = "en" )
    => /\ Len(result) = 1
       /\ result[1].id = initialDocs[3].id
       /\ result[1].relevanceScore = 3

\* C9 as amended - in the same example the result is doc B alone with
\* relevance score 5: 3 for the title 'Monthly Financial Report' and 2 for the
\* docType label 'Budget Report', which contains the query too; doc A matches
\* in no field and is left out.
C9_ExampleScoreFive ==
    ( /\ pc = "output"
      /\ documents = <<initialDocs[1], initialDocs[3]>>
      /\ filters = [initialFilters EXCEPT !.searchTerm = Str("report")]
      /\ language = "en" )
    => /\ result = <<WithScore(initialDocs[3], 5)>>
       /\ Includes(ToLowerCase(initialDocs[3].title), Str("report"))
       /\ Includes(ToLowerCase(initialDocs[3].docType), Str("report"))
       /\ ~Includes(ToLowerCase(initialDocs[3].department), Str("report"))
       /\ \A k \in {"title", "docType", "department"} :
             ~Includes(ToLowerCase(initialDocs[1][k]), Str("report"))

\* the example has been evaluated
C9_Witness ==
    /\ pc = "output"
    /\ documents = <<initialDocs[1], initialDocs[3]>>
    /\ filters = [initialFilters EXCEPT !.searchTerm = Str("report")]
    /\ language = "en"
    /\ Len(result) = 1

\* C11 - The score depends on the searchable fields only: two facet-filtered
\* documents with the same title, docType and department have the same score
\* (both are in the result with equal relevanceScore, or both are left out)
\* whatever their ministry, year, status, id, file and uploadDate; and a
\* document whose rendered title, docType and department do not contain the
\* query is not in the result, also when its ministry, year or status text
\* contains the query.
C11_ScoreOnlySearchableFields ==
    (pc = "output" /\ Trim(filters.searchTerm) # <<>>) =>
        LET q == ToLowerCase(filters.searchTerm)
            plain(r) == [k \in DOMAIN r \ {"relevanceScore"} |-> r[k]]
            inResult(d) == \E j \in 1..Len(result) : plain(result[j]) = d
            scoreOf(d) ==
                IF inResult(d)
                THEN result[CHOOSE j \in 1..Len(result) :
                                plain(result[j]) = d].relevanceScore
                ELSE 0
            searchable(d) ==
                \/ Includes(ToLowerCase(getTranslatedDocTitle(language, d.title)), q)
                \/ Includes(ToLowerCase(getTranslatedValue(language, "docTypes",
                                                           d.docType)), q)
                \/ Includes(ToLowerCase(getTranslatedValue(language, "departments",
                                                           d.department)), q)
        IN /\ \A i, j \in 1..Len(filtered) :
                 ( /\ filtered[i].title = filtered[j].title
                   /\ filtered[i].docType = filtered[j].docType
                   /\ filtered[i].department = filtered[j].department )
                 => scoreOf(filtered[i]) = scoreOf(filtered[j])
           /\ \A i \in 1..Len(filtered) :
                 ~searchable(filtered[i]) => ~inResult(filtered[i])

\* a relevance result that holds two documents with the same searchable fields
\* and different ministry, year, status, id and uploadDate, with equal scores,
\* while a facet-filtered document whose status text contains the query and
\* whose searchable fields do not has been left out
C11_Witness ==
    /\ pc = "output"
    /\ Trim(filters.searchTerm) # <<>>
    /\ \E i, j \in 1..Len(result) :
          /\ i # j
          /\ result[i].title = result[j].title
          /\ result[i].docType = result[j].docType
          /\ result[i].department = result[j].department
          /\ result[i].ministry # result[j].ministry
          /\ result[i].year # result[j].year
          /\ result[i].status # result[j].status
          /\ result[i].id # result[j].id
          /\ result[i].uploadDate # result[j].uploadDate
          /\ result[i].relevanceScore = result[j].relevanceScore
    /\ \E i \in 1..Len(filtered) :
          /\ Includes(ToLowerCase(getTranslatedValue(language, "statuses",
                                                     filtered[i].status)),
                      ToLowerCase(filters.searchTerm))
          /\ \A j \in 1..Len(result) : result[j].id # filtered[i].id

-----------------------------------------------------------------------------
(* Properties of the locale rendering, checked under SpecRender *)

\* C10 - Identity fallback: getTranslatedValue returns the raw value when the
\* language has no dictionary entry for it, getTranslatedDocTitle returns the
\* raw title when the language has no translation of it, and in en every
\* title and every category value is rendered as itself.
C10_IdentityFallback ==
    pc = "output" =>
        /\ ( /\ probe.fn = "getTranslatedValue"
             /\ language = "zh"
             /\ probe.value \notin DictKeys(translationsMap[probe.category]) )
           => probe.out = probe.value
        /\ ( /\ probe.fn = "getTranslatedDocTitle"
             /\ language = "zh"
             /\ probe.value \notin DictKeys(titleTranslations) )
           => probe.out = probe.value
        /\ language = "en" => probe.out = probe.value

-----------------------------------------------------------------------------
(* Properties of the application, checked under Spec *)

\* C6 - Id uniqueness: no two documents of the collection have the same id.
C6_IdsUnique ==
    \A i, j \in 1..Len(documents) :
        documents[i].id = documents[j].id => i = j

\* C7 - Append-only collection: every step leaves the collection as it is or
\* adds documents to it, the documents already stored keeping their fields
\* and their relative order.  The steps that change it are the seeding,
\* which happens once and adds the seeded documents to the uploads made
\* before it, and an accepted upload, which adds exactly one document and
\* closes the form.  Computing the result changes nothing in the collection.
C7_AppendOnly ==
    [][ \/ documents' = documents
        \/ /\ pc = "mounting"
           /\ pc' # "mounting"
           /\ documents' = documents \o initialDocs
        \/ /\ pc \in {"mounting", "mounted"}
           /\ isUploading /\ ~isUploading'
           /\ form.title # <<>> /\ form.file # Null
           /\ Len(documents') = Len(documents) + 1
           /\ \E p \in 1..Len(documents') :
                 /\ SubSeq(documents', 1, p - 1)
                       \o SubSeq(documents', p + 1, Len(documents')) = documents
                 /\ documents'[p].title = form.title
        ]_vars

\* two uploads have been added to the seeded collection and the result has
\* been sorted into another order than the collection's
C7_Witness ==
    /\ pc = "mounted"
    /\ Len(documents) = Len(initialDocs) + 2
    /\ SubSeq(documents, 3, Len(documents)) = initialDocs
    /\ Len(result) >= 2
    /\ result[1].id # documents[1].id

\* C12 - After every language toggle the displayed result is the ranking
\* recomputed from the same documents and criteria with the new language's
\* renderings; the result shown before the toggle was the ranking under the
\* previous language, and the page keeps running, so a second toggle
\* restores it.
C12_ToggleRecomputes ==
    [][ (pc = "mounted" /\ language' # language) =>
            /\ documents' = documents
            /\ filters' = filters
            /\ pc' = "mounted"
            /\ result' = filteredDocuments(documents, filters, language')
            /\ result = filteredDocuments(documents, filters, language)
      ]_vars

\* C13 - A submit of the upload form with an empty title or without a file
\* sets the form error and leaves the collection, the filters, the language
\* and the open state of the form unchanged; no step of the form made with an
\* empty title or without a file changes the collection (it changes then by
\* the rendering of the seeding only, which leaves form, filters, language
\* and open state alone); an upload adds one document only by a submit made
\* with a non-empty title and a file, and that step closes the upload form.
C13_RejectedUploadNoChange ==
    [][ (pc \in {"mounting", "mounted"}) =>
            /\ (form'.error # form.error /\ form'.error # <<>>) =>
                  /\ isUploading
                  /\ form.title = <<>> \/ form.file = Null
                  /\ form' = [form EXCEPT !.error = formError(language)]
                  /\ UNCHANGED <<documents, filters, language, isUploading>>
            /\ (isUploading /\ (form.title = <<>> \/ form.file = Null)) =>
                  \/ documents' = documents
                  \/ /\ pc = "mounting"
                     /\ pc' # "mounting"
                     /\ documents' = documents \o initialDocs
                     /\ UNCHANGED <<form, filters, language, isUploading>>
            /\ documents' # documents =>
                  \/ /\ pc = "mounting"
                     /\ pc' # "mounting"
                     /\ documents' = documents \o initialDocs
                     /\ UNCHANGED <<form, filters, language, isUploading>>
                  \/ /\ isUploading
                     /\ form.title # <<>>
                     /\ form.file # Null
                     /\ Len(documents') = Len(documents) + 1
                     /\ ~isUploading'
      ]_vars

\* the form is open and shows the error after a submit with a title and no
\* file, made before the seeding was rendered; the collection is still empty
C13_Witness ==
    /\ pc = "mounting"
    /\ isUploading
    /\ form.title # <<>>
    /\ form.file = Null
    /\ form.error = formError(language)
    /\ documents = <<>>

\* C14 - After an accepted upload, with blank search text and facet
\* constraints that the new document satisfies, the new document is the first
\* element of the result, also when an earlier document has the same
\* uploadDate.
C14_NewestUploadFirst ==
    [][ (pc \in {"mounting", "mounted"} /\ Len(documents') = Len(documents) + 1) =>
            \A p \in 1..Len(documents') :
                ( /\ documents = SubSeq(documents', 1, p - 1)
                                  \o SubSeq(documents', p + 1, Len(documents'))
                  /\ Trim(filters'.searchTerm) = <<>>
                  /\ FacetMatches(documents'[p], filters') )
                => /\ Len(result') >= 1
                   /\ result'[1] = documents'[p]
      ]_vars

\* two uploads with the same uploadDate and different titles, made before
\* the seeding was rendered; the year facet is constrained to the uploads'
\* year and the later upload is shown first
C14_Witness ==
    /\ pc = "mounting"
    /\ ~isUploading
    /\ Len(documents) = 2
    /\ documents[1].uploadDate = documents[2].uploadDate
    /\ documents[1].title # documents[2].title
    /\ Trim(filters.searchTerm) = <<>>
    /\ filters.year = Str("2026")
    /\ Len(result) = 2
    /\ result[1] = documents[1]
    /\ result[2] = documents[2]

====
